---- MODULE Spec2Model ----
(***************************************************************************)
(* Model of surfline_forecast.py: the spot registry (SurflineAPI), the     *)
(* board quiver and its scoring engine (BoardQuiver) and the request       *)
(* pipeline (SurflineForecast).                                            *)
(*                                                                         *)
(* Numeric conventions (the program computes in floats; the model uses     *)
(* exact fixed point so that every sum below is an integer):               *)
(*   - surf heights reported by the provider and the boards' ideal wave    *)
(*     ranges are whole feet;                                              *)
(*   - wave_height, the mean of two whole feet, is kept in HALF feet       *)
(*     (wave_height = 5 means 2.5ft), so "wave_height < 3" reads "< 6";    *)
(*   - periods and wind speeds are whole seconds / mph;                    *)
(*   - scores are kept in TENTHS of a point (3 points = 30, 0.5 = 5).      *)
(* Text is a sequence of one-character strings (<<"a", "_", "b">>).        *)
(* A Python dict is a record/function, None is Null, {} is EmptyDict.      *)
(***************************************************************************)
EXTENDS Integers, Sequences, FiniteSets, TLC

VARIABLES pc, halt, load_status, spots_list, spots, construction_properties, boards,
          spot_name, save_json, spot_info, wave_data, wind_data, tide_data,
          conditions, args, recommendations, export, result, log

vars == <<pc, halt, load_status, spots_list, spots, construction_properties, boards,
          spot_name, save_json, spot_info, wave_data, wind_data, tide_data,
          conditions, args, recommendations, export, result, log>>

(***************************************************************************)
(* Python values                                                           *)
(***************************************************************************)
Null == [None |-> TRUE]

EmptyDict == <<>>

\* bool(d) of an Optional[Dict]: None and {} are falsy
Truthy(d) == d # Null /\ DOMAIN d # {}

\* d.get(k, default)
Get(d, k, default) == IF k \in DOMAIN d THEN d[k] ELSE default

Max(a, b) == IF a >= b THEN a ELSE b

Abs(a) == IF a >= 0 THEN a ELSE 0 - a

(***************************************************************************)
(* Bounds                                                                  *)
(***************************************************************************)
MaxBoards == 3

MaxNameLen == 2

(***************************************************************************)
(* BoardQuiver._load_constructions                                         *)
(***************************************************************************)
\* the built-in table returned when the constructions file is not found
DefaultConstructions ==
    [pu |-> [full_name |-> "Polyurethane/Polyester",
             durability |-> "medium",
             flex |-> "high",
             paddle_power |-> "medium",
             small_wave_performance |-> "good",
             powerful_wave_performance |-> "excellent"]]

\* a constructions file that ranks "pu" plainly and "epoxy" highly
LoadedConstructions ==
    [pu    |-> [flex |-> "medium",
                paddle_power |-> "medium",
                small_wave_performance |-> "good",
                powerful_wave_performance |-> "good"],
     epoxy |-> [flex |-> "medium-high",
                paddle_power |-> "high",
                small_wave_performance |-> "excellent",
                powerful_wave_performance |-> "good"]]

\* every table json.load can hand back in this model: the two above, a file
\* with no "pu" entry, and a file whose "pu" entry is the empty object
Tables ==
    { DefaultConstructions,
      LoadedConstructions,
      [epoxy |-> LoadedConstructions.epoxy],
      [pu |-> EmptyDict, epoxy |-> LoadedConstructions.epoxy] }

(***************************************************************************)
(* Board catalog (my_boards.json)                                          *)
(***************************************************************************)
BoardTypes ==
    {"fish/hybrid", "longboard", "performance_shortboard", "gun", "twin_fin",
     "mid_length"}

\* (ideal_wave_range, ideal_period_range) pairs, in feet and seconds
IdealRanges == { <<(<<2, 4>>), (<<10, 14>>)>>, <<(<<4, 8>>), (<<12, 18>>)>> }

Volumes == {30, 40}

\* "carbon" is a key no table holds
ConstructionNames == {"pu", "epoxy", "carbon"}

BoardBase(t, r, v) ==
    [name |-> <<"b">>, type |-> t, ideal_wave_range |-> r[1],
     ideal_period_range |-> r[2], volume |-> v]

\* a board that names a construction, and one that names none
BoardSet ==
    {BoardBase(t, r, v) @@ [construction |-> c] :
        t \in BoardTypes, r \in IdealRanges, v \in Volumes, c \in ConstructionNames}
    \cup {BoardBase(t, r, v) : t \in BoardTypes, r \in IdealRanges, v \in Volumes}

\* the boards multi-board catalogs are built from (two of them always tie)
QuiverBoards ==
    { BoardBase("longboard", <<(<<2, 4>>), (<<10, 14>>)>>, 40),
      BoardBase("mid_length", <<(<<2, 4>>), (<<10, 14>>)>>, 40),
      BoardBase("gun", <<(<<4, 8>>), (<<12, 18>>)>>, 30) @@ [construction |-> "epoxy"] }

SeqsUpTo(S, n) == UNION {[1..k -> S] : k \in 0..n}

Catalogs == {<<b>> : b \in BoardSet} \cup SeqsUpTo(QuiverBoards, MaxBoards)

(***************************************************************************)
(* BoardQuiver.recommend_board                                             *)
(***************************************************************************)
\* lines 189-190: the construction key and the record it resolves to
ConstructionType(board) == Get(board, "construction", "pu")

\* faulty variant of ResolveConstruction: an unknown key is not retried as "pu"
ResolveConstructionNoFallback(table, board) ==
    Get(table, ConstructionType(board), EmptyDict)

ResolveConstruction(table, board) ==
    Get(table, ConstructionType(board), Get(table, "pu", EmptyDict))

\* what one rule adds: points to the score, lines to the reasoning
Rule(points, why) == [points |-> points, why |-> why]

NoRule == Rule(0, <<>>)

\* faulty variant of WaveScore: the floor at 0 is left out
WaveScoreNoFloor(board, wave_height) ==
    LET min_wave == board.ideal_wave_range[1]
        max_wave == board.ideal_wave_range[2]
    IN  IF 2 * min_wave <= wave_height /\ wave_height <= 2 * max_wave
        THEN Rule(30, <<"Perfect wave size">>)
        ELSE IF wave_height < 2 * min_wave
             THEN Rule(20 - 5 * (2 * min_wave - wave_height), <<"Below ideal size">>)
             ELSE Rule(20 - 5 * (wave_height - 2 * max_wave), <<"Above ideal size">>)

\* lines 192-202, in tenths; wave_height in half feet, the range in feet
WaveScore(board, wave_height) ==
    LET min_wave == board.ideal_wave_range[1]
        max_wave == board.ideal_wave_range[2]
    IN  IF 2 * min_wave <= wave_height /\ wave_height <= 2 * max_wave
        THEN Rule(30, <<"Perfect wave size">>)
        ELSE IF wave_height < 2 * min_wave
             THEN Rule(Max(0, 20 - 5 * (2 * min_wave - wave_height)),
                       <<"Below ideal size">>)
             ELSE Rule(Max(0, 20 - 5 * (wave_height - 2 * max_wave)),
                       <<"Above ideal size">>)

\* faulty variant of PeriodScore: the ends of the ideal range are left out
PeriodScoreExclusive(board, period) ==
    LET min_period == board.ideal_period_range[1]
        max_period == board.ideal_period_range[2]
    IN  IF min_period < period /\ period < max_period
        THEN Rule(20, <<"Good period">>)
        ELSE Rule(Max(0, 10 - Abs(2 * period - (min_period + max_period))),
                  <<"Period okay">>)

\* lines 204-211, in tenths: 10 * (1 - |p - (lo + hi) / 2| / 5) = 10 - |2p - (lo + hi)|
PeriodScore(board, period) ==
    LET min_period == board.ideal_period_range[1]
        max_period == board.ideal_period_range[2]
    IN  IF min_period <= period /\ period <= max_period
        THEN Rule(20, <<"Good period">>)
        ELSE Rule(Max(0, 10 - Abs(2 * period - (min_period + max_period))),
                  <<"Period okay">>)

\* faulty variant of WindScore: 10 mph still counts as clean
WindScoreInclusive(wind_speed) ==
    IF wind_speed <= 10 THEN Rule(10, <<"Clean conditions">>)
    ELSE IF wind_speed < 15 THEN Rule(5, <<"Slightly windy">>)
    ELSE Rule(0, <<"Windy conditions">>)

\* lines 213-221
WindScore(wind_speed) ==
    IF wind_speed < 10 THEN Rule(10, <<"Clean conditions">>)
    ELSE IF wind_speed < 15 THEN Rule(5, <<"Slightly windy">>)
    ELSE Rule(0, <<"Windy conditions">>)

\* lines 228-241
SpotTypeScore(board, wave_height, period, spot) ==
    LET spot_type == Get(spot, "type", "unknown")
    IN  IF spot_type = "beach_break"
        THEN IF board.type \in {"fish/hybrid", "longboard"}
             THEN Rule(5, <<"Great for beach breaks">>)
             ELSE NoRule
        ELSE IF spot_type \in {"reef_break", "point_break"}
             THEN IF board.type = "performance_shortboard" /\ period > 12
                  THEN Rule(10, <<"Performance board ideal for reef breaks">>)
                  ELSE IF board.type = "gun" /\ wave_height > 12
                       THEN Rule(15, <<"Gun perfect for big reef waves">>)
                       ELSE NoRule
             ELSE NoRule

\* lines 243-250
WaveQualityScore(board, characteristics) ==
    LET wave_quality == Get(characteristics, "wave_quality", "unknown")
    IN  IF wave_quality = "forgiving" /\ board.type \in {"fish/hybrid", "longboard"}
        THEN Rule(5, <<"Forgiving waves suit this board type">>)
        ELSE IF /\ wave_quality \in {"excellent", "challenging"}
                /\ board.type = "performance_shortboard"
             THEN Rule(5, <<"High-performance board for quality waves">>)
             ELSE NoRule

\* lines 252-259
SkillScore(board, characteristics) ==
    LET skill_level == Get(characteristics, "skill_level", "unknown")
    IN  IF skill_level = "beginner_friendly" /\ board.volume > 35
        THEN Rule(5, <<"Extra volume good for forgiving spots">>)
        ELSE IF skill_level = "advanced" /\ board.volume < 35
             THEN Rule(5, <<"Lower volume suits advanced breaks">>)
             ELSE NoRule

\* lines 223-259: the three spot rules, in the order they run
SpotScore(board, wave_height, period, spot) ==
    IF Truthy(spot) /\ "characteristics" \in DOMAIN spot
    THEN <<SpotTypeScore(board, wave_height, period, spot),
           WaveQualityScore(board, spot.characteristics),
           SkillScore(board, spot.characteristics)>>
    ELSE <<>>

\* lines 264, 269, 274, 279: the conditions of the four construction bonuses
SmallWaveBonus(construction, wave_height, period) ==
    wave_height < 6 /\ Get(construction, "small_wave_performance", "None") = "excellent"

PowerBonus(construction, wave_height, period) ==
    period > 13 /\ Get(construction, "powerful_wave_performance", "None") = "excellent"

PaddleBonus(construction, wave_height, period) ==
    /\ wave_height < 6
    /\ period < 10
    /\ Get(construction, "paddle_power", "None") \in {"high", "excellent"}

FlexBonus(construction, wave_height, period) ==
    period > 12 /\ Get(construction, "flex", "None") \in {"high", "medium-high"}

\* lines 261-281: the four construction rules, in the order they run
ConstructionScore(construction, wave_height, period) ==
    IF Truthy(construction)
    THEN <<IF SmallWaveBonus(construction, wave_height, period)
           THEN Rule(10, <<"construction excels in small waves">>) ELSE NoRule,
           IF PowerBonus(construction, wave_height, period)
           THEN Rule(10, <<"construction handles power well">>) ELSE NoRule,
           IF PaddleBonus(construction, wave_height, period)
           THEN Rule(5, <<"gives extra paddle power">>) ELSE NoRule,
           IF FlexBonus(construction, wave_height, period)
           THEN Rule(5, <<"provides responsive feel">>) ELSE NoRule>>
    ELSE <<>>

\* lines 283-292
BoardTypeScore(board, wave_height, period) ==
    IF board.type = "fish/hybrid" /\ wave_height < 6
    THEN Rule(10, <<"Fish design excels in small waves">>)
    ELSE IF board.type = "performance_shortboard" /\ period > 12
         THEN Rule(10, <<"Performance board great for powerful waves">>)
         ELSE IF board.type = "twin_fin" /\ 6 <= wave_height /\ wave_height <= 10
              THEN Rule(5, <<"Twin fin sweet spot conditions">>)
              ELSE NoRule

\* score += ... / reasoning.append(...) over the rules in order
RECURSIVE SumPoints(_)
SumPoints(rules) ==
    IF rules = <<>> THEN 0 ELSE Head(rules).points + SumPoints(Tail(rules))

RECURSIVE AllWhy(_)
AllWhy(rules) ==
    IF rules = <<>> THEN <<>> ELSE Head(rules).why \o AllWhy(Tail(rules))

\* lines 185-300: one pass of the loop; catalog_index is the board's position
\* in self.boards (not a key of the Python dict, kept to tell equal boards apart)
ScoreBoard(table, board, i, wave_height, period, wind_speed, spot) ==
    LET construction == ResolveConstruction(table, board)
        rules == <<WaveScore(board, wave_height),
                   PeriodScore(board, period),
                   WindScore(wind_speed)>>
                 \o SpotScore(board, wave_height, period, spot)
                 \o ConstructionScore(construction, wave_height, period)
                 \o <<BoardTypeScore(board, wave_height, period)>>
    IN  [board |-> board,
         construction_info |-> construction,
         construction_type |-> ConstructionType(board),
         score |-> SumPoints(rules),
         reasoning |-> AllWhy(rules),
         catalog_index |-> i]

\* faulty variant of InsertByScore: an entry goes before the entries that tie
\* with it (what sorting ascending and reversing would give)
RECURSIVE InsertBeforeTies(_, _)
InsertBeforeTies(sorted, r) ==
    IF sorted = <<>> THEN <<r>>
    ELSE IF Head(sorted).score > r.score
         THEN <<Head(sorted)>> \o InsertBeforeTies(Tail(sorted), r)
         ELSE <<r>> \o sorted

\* line 303: list.sort(key=score, reverse=True) is stable: an entry goes after
\* every entry whose score is at least its own
RECURSIVE InsertByScore(_, _)
InsertByScore(sorted, r) ==
    IF sorted = <<>> THEN <<r>>
    ELSE IF Head(sorted).score >= r.score
         THEN <<Head(sorted)>> \o InsertByScore(Tail(sorted), r)
         ELSE <<r>> \o sorted

RECURSIVE SortByScore(_)
SortByScore(scores) ==
    IF scores = <<>> THEN <<>>
    ELSE InsertByScore(SortByScore(SubSeq(scores, 1, Len(scores) - 1)),
                       scores[Len(scores)])

\* lines 181-304
RecommendBoard(table, catalog, wave_height, period, wind_speed, spot) ==
    SortByScore([i \in 1..Len(catalog) |->
        ScoreBoard(table, catalog[i], i, wave_height, period, wind_speed, spot)])

(***************************************************************************)
(* SurflineAPI: the spot registry                                          *)
(***************************************************************************)
\* the characters spot names and queries are written with
Chars == {"A", "a", " ", "-", "_"}

\* str.lower(), one character at a time
LowerChar(c) == IF c = "A" THEN "a" ELSE c

Lower(s) == [i \in DOMAIN s |-> LowerChar(s[i])]

\* str.replace(old, new) for one-character old and new
Replace(s, old, new) == [i \in DOMAIN s |-> IF s[i] = old THEN new ELSE s[i]]

\* faulty variant of Normalize: hyphens are left as they are
NormalizeKeepHyphen(s) == Replace(Lower(s), " ", "_")

\* lines 46 and 62: name.lower().replace(" ", "_").replace("-", "_")
Normalize(s) == Replace(Replace(Lower(s), " ", "_"), "-", "_")

\* lines 43-50: each spot is stored under its normalized and its lowercase
\* name, later spots overwriting earlier ones
RECURSIVE LoadSurfSpotsDict(_)
LoadSurfSpotsDict(list) ==
    IF list = <<>> THEN <<>>
    ELSE LET spot == list[Len(list)]
             before == LoadSurfSpotsDict(SubSeq(list, 1, Len(list) - 1))
         IN  (Lower(spot.name) :> spot) @@ (Normalize(spot.name) :> spot) @@ before

\* lines 60-72: the record found, or None
GetSpotInfo(table, name) ==
    LET first == Get(table, Normalize(name), Null)
        second == Get(table, Lower(name), Null)
        found == IF Truthy(first) THEN first ELSE second
    IN  IF Truthy(found) THEN found ELSE Null

Spot(name, type) == [name |-> name, surfline_id |-> name, type |-> type]

Characteristics(quality, skill) ==
    [wave_quality |-> quality, skill_level |-> skill, crowd_factor |-> "high"]

\* spot records with the metadata the scoring engine reads
BeachSpot ==
    Spot(<<"a", " ", "a">>, "beach_break")
        @@ [characteristics |-> Characteristics("forgiving", "beginner_friendly")]

ReefSpot ==
    Spot(<<"A", "-">>, "reef_break")
        @@ [characteristics |-> Characteristics("excellent", "advanced")]

PointSpot ==
    Spot(<<"_">>, "point_break")
        @@ [characteristics |-> Characteristics("challenging", "intermediate")]

BareSpot == Spot(<<"a">>, "beach_break")

(***************************************************************************)
(* SurflineForecast.parse_conditions                                       *)
(***************************************************************************)
\* lines 317-319: the statements that raise KeyError, IndexError or TypeError
WaveRaises(wave) ==
    \/ wave = Null
    \/ "data" \notin DOMAIN wave
    \/ "wave" \notin DOMAIN wave.data
    \/ Len(wave.data.wave) = 0
    \/ LET current_wave == wave.data.wave[1]
       IN  \/ "surf" \notin DOMAIN current_wave
           \/ "min" \notin DOMAIN current_wave.surf
           \/ "max" \notin DOMAIN current_wave.surf
           \/ Len(Get(current_wave, "swells", <<EmptyDict>>)) = 0

\* faulty variant of WindRaises: the payload is indexed without the
\* "if wind_data" test
WindRaisesUnguarded(wind) ==
    \/ "data" \notin DOMAIN wind
    \/ "wind" \notin DOMAIN wind.data
    \/ Len(wind.data.wind) = 0

\* line 322
WindRaises(wind) ==
    /\ Truthy(wind)
    /\ \/ "data" \notin DOMAIN wind
       \/ "wind" \notin DOMAIN wind.data
       \/ Len(wind.data.wind) = 0

\* lines 313-342; wave_height in half feet: (min + max) / 2 ft = min + max halves.
\* The timestamp is left out.
ParseConditions(wave, wind, tide) ==
    IF WaveRaises(wave) \/ WindRaises(wind) THEN Null
    ELSE LET current_wave == wave.data.wave[1]
             current_wind == IF Truthy(wind) THEN wind.data.wind[1] ELSE EmptyDict
         IN  [wave_height |-> current_wave.surf.min + current_wave.surf.max,
              period |-> Get(Get(current_wave, "swells", <<EmptyDict>>)[1], "period", 0),
              wind_speed |-> Get(current_wind, "speed", 0),
              wind_direction |-> Get(current_wind, "direction", 0),
              tide |-> IF Truthy(tide) /\ "data" \in DOMAIN tide
                       THEN "Available" ELSE "N/A"]

(***************************************************************************)
(* What the files and the provider can hold                                *)
(***************************************************************************)
SpotLists == { <<BeachSpot, ReefSpot>>, <<BareSpot, PointSpot>> }

SpotQueries == { <<"a", "_", "a">>, <<"A", " ">>, <<"a">> }

QuiverCatalogs == SeqsUpTo(QuiverBoards, MaxBoards)

WaveStep(min, max) == [surf |-> [min |-> min, max |-> max]]

WaveOf(steps) == [data |-> [wave |-> steps]]

\* payloads whose first time-step reports surf min and max
SurfPayloads ==
    { WaveOf(<<WaveStep(1, 3) @@ [swells |-> <<[period |-> 8]>>]>>),
      WaveOf(<<WaveStep(2, 3) @@ [swells |-> <<[period |-> 14], [period |-> 8]>>]>>),
      WaveOf(<<WaveStep(5, 8) @@ [swells |-> <<[period |-> 13]>>], WaveStep(1, 1)>>),
      WaveOf(<<WaveStep(2, 4)>>),
      WaveOf(<<WaveStep(2, 4) @@ [swells |-> <<>>]>>),
      WaveOf(<<WaveStep(2, 4) @@ [swells |-> <<[height |-> 3]>>]>>) }

\* payloads with the wave-height data missing, and the empty object
BrokenWavePayloads ==
    { WaveOf(<<>>),
      WaveOf(<<[swells |-> <<[period |-> 8]>>]>>),
      WaveOf(<<[surf |-> [min |-> 2]]>>),
      [associated |-> EmptyDict],
      EmptyDict }

WindOf(steps) == [data |-> [wind |-> steps]]

WindPayloads ==
    { WindOf(<<[speed |-> 5, direction |-> 270]>>),
      WindOf(<<[speed |-> 12, direction |-> 90], [speed |-> 20, direction |-> 0]>>),
      WindOf(<<[gust |-> 20]>>),
      WindOf(<<>>),
      EmptyDict }

TidePayloads == { [data |-> [tides |-> <<>>]], [associated |-> EmptyDict] }

(***************************************************************************)
(* The program: main() builds SurflineForecast, then calls run             *)
(***************************************************************************)
NoArgs == [wave_height |-> 0, period |-> 0, wind_speed |-> 0, spot_info |-> Null]

NoExport == [written |-> FALSE]

NoResult == [status |-> "none", shown |-> <<>>]

\* nothing requested yet
BlankRun ==
    /\ spot_name = <<>>
    /\ save_json = FALSE
    /\ spot_info = Null
    /\ wave_data = Null
    /\ wind_data = Null
    /\ tide_data = Null
    /\ conditions = Null
    /\ args = NoArgs
    /\ recommendations = <<>>
    /\ export = NoExport
    /\ result = NoResult
    /\ log = <<>>

Pending == [spots |-> "pending", constructions |-> "pending", boards |-> "pending"]

\* the process starts with nothing loaded
Init ==
    /\ pc = "load_spots"
    /\ halt = "none"
    /\ load_status = Pending
    /\ spots_list = <<>>
    /\ spots = <<>>
    /\ construction_properties = EmptyDict
    /\ boards = <<>>
    /\ BlankRun

runVars == <<spot_name, save_json, spot_info, wave_data, wind_data, tide_data,
             conditions, args, recommendations, export, result, log>>

\* lines 36-58: a missing file ends the process (sys.exit), an unparseable one
\* raises json.JSONDecodeError, which nothing catches
LoadSurfSpots ==
    /\ pc = "load_spots"
    /\ \/ /\ load_status' = [load_status EXCEPT !.spots = "missing"]
          /\ pc' = "halted" /\ halt' = "exit:spots"
          /\ UNCHANGED <<spots_list, spots>>
       \/ /\ load_status' = [load_status EXCEPT !.spots = "unparseable"]
          /\ pc' = "halted" /\ halt' = "raise:spots"
          /\ UNCHANGED <<spots_list, spots>>
       \/ \E list \in SpotLists :
            /\ load_status' = [load_status EXCEPT !.spots = "ok"]
            /\ spots_list' = list
            /\ spots' = LoadSurfSpotsDict(list)
            /\ pc' = "load_constructions"
            /\ UNCHANGED halt
    /\ UNCHANGED <<construction_properties, boards>>
    /\ UNCHANGED runVars

\* lines 142, 156-179: only FileNotFoundError is caught
LoadConstructions ==
    /\ pc = "load_constructions"
    /\ \/ /\ load_status' = [load_status EXCEPT !.constructions = "missing"]
          /\ construction_properties' = DefaultConstructions
          /\ pc' = "load_boards"
          /\ UNCHANGED halt
       \/ /\ load_status' = [load_status EXCEPT !.constructions = "unparseable"]
          /\ pc' = "halted" /\ halt' = "raise:constructions"
          /\ UNCHANGED construction_properties
       \/ \E table \in Tables :
            /\ load_status' = [load_status EXCEPT !.constructions = "ok"]
            /\ construction_properties' = table
            /\ pc' = "load_boards"
            /\ UNCHANGED halt
    /\ UNCHANGED <<spots_list, spots, boards>>
    /\ UNCHANGED runVars

\* lines 144-154
LoadBoards ==
    /\ pc = "load_boards"
    /\ \/ /\ load_status' = [load_status EXCEPT !.boards = "missing"]
          /\ pc' = "halted" /\ halt' = "exit:boards"
          /\ UNCHANGED boards
       \/ /\ load_status' = [load_status EXCEPT !.boards = "unparseable"]
          /\ pc' = "halted" /\ halt' = "raise:boards"
          /\ UNCHANGED boards
       \/ \E catalog \in QuiverCatalogs :
            /\ load_status' = [load_status EXCEPT !.boards = "ok"]
            /\ boards' = catalog
            /\ pc' = "run"
            /\ UNCHANGED halt
    /\ UNCHANGED <<spots_list, spots, construction_properties>>
    /\ UNCHANGED runVars

loadVars == <<halt, load_status, spots_list, spots, construction_properties, boards>>

\* faulty variant of RunGetSpotInfo: the return on a miss is left out
RunGetSpotInfoNoReturn ==
    /\ pc = "run"
    /\ \E name \in SpotQueries, save \in BOOLEAN :
         /\ spot_name' = name
         /\ save_json' = save
         /\ spot_info' = GetSpotInfo(spots, name)
    /\ log' = Append(log, "get_spot_info")
    /\ pc' = "fetch_forecast"
    /\ UNCHANGED <<wave_data, wind_data, tide_data, conditions, args,
                   recommendations, export, result>>
    /\ UNCHANGED <<halt, load_status, spots_list, spots, construction_properties,
                   boards>>

\* lines 401-410: the lookup, and the return on a miss
RunGetSpotInfo ==
    /\ pc = "run"
    /\ \E name \in SpotQueries, save \in BOOLEAN :
         /\ spot_name' = name
         /\ save_json' = save
         /\ spot_info' = GetSpotInfo(spots, name)
    /\ log' = Append(log, "get_spot_info")
    /\ IF Truthy(spot_info')
       THEN pc' = "fetch_forecast" /\ UNCHANGED result
       ELSE pc' = "done" /\ result' = [NoResult EXCEPT !.status = "unknown_spot"]
    /\ UNCHANGED <<wave_data, wind_data, tide_data, conditions, args,
                   recommendations, export>>
    /\ UNCHANGED loadVars

\* lines 79-95, 413: a payload, or None when the request fails
FetchForecast ==
    /\ pc = "fetch_forecast"
    /\ wave_data' \in SurfPayloads \cup BrokenWavePayloads \cup {Null}
    /\ log' = Append(log, "fetch_forecast")
    /\ pc' = "fetch_wind"
    /\ UNCHANGED <<spot_name, save_json, spot_info, wind_data, tide_data,
                   conditions, args, recommendations, export, result>>
    /\ UNCHANGED loadVars

\* lines 97-113, 414
FetchWind ==
    /\ pc = "fetch_wind"
    /\ wind_data' \in WindPayloads \cup {Null}
    /\ log' = Append(log, "fetch_wind")
    /\ pc' = "fetch_tides"
    /\ UNCHANGED <<spot_name, save_json, spot_info, wave_data, tide_data,
                   conditions, args, recommendations, export, result>>
    /\ UNCHANGED loadVars

\* lines 115-130, 415
FetchTides ==
    /\ pc = "fetch_tides"
    /\ tide_data' \in TidePayloads \cup {Null}
    /\ log' = Append(log, "fetch_tides")
    /\ pc' = "parse"
    /\ UNCHANGED <<spot_name, save_json, spot_info, wave_data, wind_data,
                   conditions, args, recommendations, export, result>>
    /\ UNCHANGED loadVars

\* lines 417-423
RunParse ==
    /\ pc = "parse"
    /\ IF ~Truthy(wave_data)
       THEN /\ pc' = "done"
            /\ result' = [NoResult EXCEPT !.status = "failed_fetch"]
            /\ UNCHANGED <<conditions, log>>
       ELSE /\ conditions' = ParseConditions(wave_data, wind_data, tide_data)
            /\ log' = Append(log, "parse_conditions")
            /\ IF conditions' = Null
               THEN pc' = "done"
                    /\ result' = [NoResult EXCEPT !.status = "failed_parse"]
               ELSE pc' = "recommend" /\ UNCHANGED result
    /\ UNCHANGED <<spot_name, save_json, spot_info, wave_data, wind_data,
                   tide_data, args, recommendations, export>>
    /\ UNCHANGED loadVars

\* lines 425-431
RunRecommend ==
    /\ pc = "recommend"
    /\ args' = [wave_height |-> conditions.wave_height, period |-> conditions.period,
                wind_speed |-> conditions.wind_speed, spot_info |-> spot_info]
    /\ recommendations' =
          RecommendBoard(construction_properties, boards, conditions.wave_height,
                         conditions.period, conditions.wind_speed, spot_info)
    /\ log' = Append(log, "recommend_board")
    /\ pc' = IF save_json THEN "save" ELSE "format"
    /\ UNCHANGED <<spot_name, save_json, spot_info, wave_data, wind_data,
                   tide_data, conditions, export, result>>
    /\ UNCHANGED loadVars

\* lines 433-448
RunSave ==
    /\ pc = "save"
    /\ export' = [written |-> TRUE, spot_info |-> spot_info,
                  conditions |-> conditions, recommendations |-> recommendations,
                  raw_data |-> [wave |-> wave_data, wind |-> wind_data,
                                tide |-> tide_data]]
    /\ log' = Append(log, "save")
    /\ pc' = "format"
    /\ UNCHANGED <<spot_name, save_json, spot_info, wave_data, wind_data,
                   tide_data, conditions, args, recommendations, result>>
    /\ UNCHANGED loadVars

\* lines 344-399, 450: the top three are shown; recommendations[0] of an empty
\* list raises IndexError, which main() reports
RunFormat ==
    /\ pc = "format"
    /\ log' = Append(log, "format_output")
    /\ result' = IF recommendations = <<>>
                 THEN [NoResult EXCEPT !.status = "raised"]
                 ELSE [status |-> "formatted",
                       shown |-> SubSeq(recommendations, 1,
                                        IF Len(recommendations) < 3
                                        THEN Len(recommendations) ELSE 3)]
    /\ pc' = "done"
    /\ UNCHANGED <<spot_name, save_json, spot_info, wave_data, wind_data,
                   tide_data, conditions, args, recommendations, export>>
    /\ UNCHANGED loadVars

Next ==
    \/ LoadSurfSpots
    \/ LoadConstructions
    \/ LoadBoards
    \/ RunGetSpotInfo
    \/ FetchForecast
    \/ FetchWind
    \/ FetchTides
    \/ RunParse
    \/ RunRecommend
    \/ RunSave
    \/ RunFormat

Spec == Init /\ [][Next]_vars

(***************************************************************************)
(* recommend_board called on a constructed BoardQuiver                     *)
(***************************************************************************)
\* in half feet: 1ft, 2.5ft, 3ft, 4ft, 6.5ft, 20ft
WaveHeights == {2, 5, 6, 8, 13, 40}

Periods == {0, 8, 12, 13, 14}

WindSpeeds == {5, 9, 10, 12, 15, 20}

SpotArgs == {Null, BareSpot, BeachSpot, ReefSpot, PointSpot}

InitScore ==
    /\ pc = "quiver"
    /\ halt = "none"
    /\ load_status = [Pending EXCEPT !.constructions = "ok", !.boards = "ok"]
    /\ spots_list = <<>>
    /\ spots = <<>>
    /\ construction_properties \in Tables
    /\ boards \in Catalogs
    /\ BlankRun

CallRecommendBoard ==
    /\ pc = "quiver"
    /\ \E wave_height \in WaveHeights, period \in Periods,
          wind_speed \in WindSpeeds, spot \in SpotArgs :
         /\ args' = [wave_height |-> wave_height, period |-> period,
                     wind_speed |-> wind_speed, spot_info |-> spot]
         /\ recommendations' =
               RecommendBoard(construction_properties, boards, wave_height,
                              period, wind_speed, spot)
    /\ log' = Append(log, "recommend_board")
    /\ pc' = "scored"
    /\ UNCHANGED <<spot_name, save_json, spot_info, wave_data, wind_data,
                   tide_data, conditions, export, result>>
    /\ UNCHANGED loadVars

NextScore == CallRecommendBoard

SpecScore == InitScore /\ [][NextScore]_vars

(***************************************************************************)
(* get_spot_info called on a constructed SurflineAPI                       *)
(***************************************************************************)
Names == SeqsUpTo(Chars, MaxNameLen)

\* registries of no, one and two spots
RegistryLists ==
    {<<>>}
    \cup {<<Spot(n, "beach_break")>> : n \in Names}
    \cup {<<Spot(n, "beach_break"), Spot(m, "reef_break")>> : n \in Names, m \in Names}

InitSpots ==
    /\ pc = "api"
    /\ halt = "none"
    /\ load_status = [Pending EXCEPT !.spots = "ok"]
    /\ spots_list \in RegistryLists
    /\ spots = LoadSurfSpotsDict(spots_list)
    /\ construction_properties = EmptyDict
    /\ boards = <<>>
    /\ BlankRun

CallGetSpotInfo ==
    /\ pc = "api"
    /\ \E name \in Names :
         /\ spot_name' = name
         /\ spot_info' = GetSpotInfo(spots, name)
    /\ log' = Append(log, "get_spot_info")
    /\ pc' = "looked_up"
    /\ UNCHANGED <<save_json, wave_data, wind_data, tide_data, conditions, args,
                   recommendations, export, result>>
    /\ UNCHANGED loadVars

NextSpots == CallGetSpotInfo

SpecSpots == InitSpots /\ [][NextSpots]_vars

(***************************************************************************)
(* Properties of the scoring engine                                        *)
(***************************************************************************)
Called(f) == \E i \in DOMAIN log : log[i] = f

Recs == {recommendations[i] : i \in DOMAIN recommendations}

\* the board's ideal ranges contain the conditions of the call, ends included
InIdealRanges(board) ==
    /\ 2 * board.ideal_wave_range[1] <= args.wave_height
    /\ args.wave_height <= 2 * board.ideal_wave_range[2]
    /\ board.ideal_period_range[1] <= args.period
    /\ args.period <= board.ideal_period_range[2]

\* none of the four construction bonuses applies to the recommendation
NoConstructionBonus(r) ==
    /\ ~SmallWaveBonus(r.construction_info, args.wave_height, args.period)
    /\ ~PowerBonus(r.construction_info, args.wave_height, args.period)
    /\ ~PaddleBonus(r.construction_info, args.wave_height, args.period)
    /\ ~FlexBonus(r.construction_info, args.wave_height, args.period)

\* none of the three board-type bonuses applies to the board
NoBoardTypeBonus(board) ==
    /\ ~(board.type = "fish/hybrid" /\ args.wave_height < 6)
    /\ ~(board.type = "performance_shortboard" /\ args.period > 12)
    /\ ~(board.type = "twin_fin" /\ 6 <= args.wave_height /\ args.wave_height <= 10)

\* the wind bonus as the rubric states it, in tenths
WindStep(wind_speed) ==
    IF wind_speed < 10 THEN 10 ELSE IF 10 <= wind_speed /\ wind_speed < 15 THEN 5 ELSE 0

\* C1: every recommendation recommend_board returns has a score of at least 0,
\* whatever the catalog, the construction table, the spot and the conditions.
C1_ScoreNonNegative == \A r \in Recs : r.score >= 0

\* a board far outside both ideal ranges in strong wind scores exactly 0:
\* both floors are in force
C1_Witness ==
    /\ Called("recommend_board")
    /\ args.wave_height = 40
    /\ args.period = 0
    /\ args.wind_speed = 20
    /\ \E r \in Recs : r.score = 0

\* C2: recommend_board returns one recommendation per catalog board (a
\* permutation of the catalog), scores never increasing along the list, and
\* boards with equal scores in catalog order.
C2_SortedPermutation ==
    Called("recommend_board") =>
        LET n == Len(boards)
        IN  /\ Len(recommendations) = n
            /\ {recommendations[i].catalog_index : i \in 1..n} = 1..n
            /\ \A i \in 1..n :
                 recommendations[i].board = boards[recommendations[i].catalog_index]
            /\ \A i, j \in 1..n :
                 i < j => /\ recommendations[i].score >= recommendations[j].score
                          /\ recommendations[i].score = recommendations[j].score
                               => recommendations[i].catalog_index
                                    < recommendations[j].catalog_index

\* three boards: the last of the catalog comes out first, and two different
\* boards tie behind it
C2_Witness ==
    /\ Called("recommend_board")
    /\ Len(recommendations) = 3
    /\ recommendations[1].catalog_index = 3
    /\ recommendations[2].score = recommendations[3].score
    /\ recommendations[2].board # recommendations[3].board

\* C3 as stated: without spot metadata, a board whose ideal ranges contain the
\* conditions and whose construction earns no construction bonus scores
\* exactly 3 + 2 + wind bonus, whatever its board type.
C3_AnyBoardType ==
    (Called("recommend_board") /\ args.spot_info = Null) =>
        \A r \in Recs :
            (InIdealRanges(r.board) /\ NoConstructionBonus(r))
                => r.score = 30 + 20 + WindStep(args.wind_speed)

\* C3 amended: the same, for the boards whose type earns none of the three
\* board-type bonuses under the conditions.
C3_NoTypeBonus ==
    (Called("recommend_board") /\ args.spot_info = Null) =>
        \A r \in Recs :
            (InIdealRanges(r.board) /\ NoConstructionBonus(r) /\ NoBoardTypeBonus(r.board))
                => r.score = 30 + 20 + WindStep(args.wind_speed)

\* the scenario of the claim: ranges [2,4] and [10,14], construction "pu",
\* 3ft at 12s in 5 mph wind, no spot: 6.0
C3_Witness ==
    /\ Called("recommend_board")
    /\ args = [wave_height |-> 6, period |-> 12, wind_speed |-> 5, spot_info |-> Null]
    /\ \E r \in Recs :
         /\ r.board.ideal_wave_range = <<2, 4>>
         /\ r.board.ideal_period_range = <<10, 14>>
         /\ r.construction_type = "pu"
         /\ NoConstructionBonus(r)
         /\ NoBoardTypeBonus(r.board)
         /\ r.score = 60

\* C4 as stated: every board resolves to a non-empty construction record, the
\* one under its own key when the table has it, else the table's "pu" entry.
C4_AlwaysPresent ==
    \A r \in Recs :
        LET key == IF "construction" \in DOMAIN r.board
                   THEN r.board.construction ELSE "pu"
        IN  /\ DOMAIN r.construction_info # {}
            /\ key \in DOMAIN construction_properties
                 => r.construction_info = construction_properties[key]
            /\ key \notin DOMAIN construction_properties
                 => /\ "pu" \in DOMAIN construction_properties
                    /\ r.construction_info = construction_properties["pu"]

\* C4 amended: a board resolves to the record under its own key when the table
\* has it, else to the table's "pu" entry when the table has one, else to the
\* empty record; an empty record earns no construction bonus.
C4_ResolvedOrEmpty ==
    \A r \in Recs :
        LET key == IF "construction" \in DOMAIN r.board
                   THEN r.board.construction ELSE "pu"
            table == construction_properties
        IN  /\ key \in DOMAIN table => r.construction_info = table[key]
            /\ (key \notin DOMAIN table /\ "pu" \in DOMAIN table)
                 => r.construction_info = table["pu"]
            /\ (key \notin DOMAIN table /\ "pu" \notin DOMAIN table)
                 => r.construction_info = EmptyDict
            /\ r.construction_info = EmptyDict
                 => \A i \in DOMAIN r.reasoning :
                      r.reasoning[i] \notin {"construction excels in small waves",
                                             "construction handles power well",
                                             "gives extra paddle power",
                                             "provides responsive feel"}

\* a board naming a key the table lacks is scored against the table's "pu"
\* record, and earns a bonus from it
C4_Witness ==
    /\ Called("recommend_board")
    /\ \E r \in Recs :
         /\ r.construction_type = "carbon"
         /\ "pu" \in DOMAIN construction_properties
         /\ r.construction_info = construction_properties["pu"]
         /\ DOMAIN r.construction_info # {}
         /\ \E i \in DOMAIN r.reasoning : r.reasoning[i] = "construction handles power well"

\* what the score holds beyond the wave, period, spot, construction and type rules
WindContribution(r) ==
    r.score - SumPoints(<<WaveScore(r.board, args.wave_height),
                          PeriodScore(r.board, args.period)>>
                        \o SpotScore(r.board, args.wave_height, args.period,
                                     args.spot_info)
                        \o ConstructionScore(r.construction_info, args.wave_height,
                                             args.period)
                        \o <<BoardTypeScore(r.board, args.wave_height, args.period)>>)

\* C10: the wind contribution to every board's score is 1 below 10 mph, 0.5
\* from 10 up to but not including 15, and 0 from 15 on, for every board, spot
\* and construction.
C10_WindStep ==
    Called("recommend_board") =>
        \A r \in Recs :
            /\ args.wind_speed < 10 => WindContribution(r) = 10
            /\ (10 <= args.wind_speed /\ args.wind_speed < 15) => WindContribution(r) = 5
            /\ args.wind_speed >= 15 => WindContribution(r) = 0

\* exactly 10 mph at a spot with metadata: half a point
C10_Witness ==
    /\ Called("recommend_board")
    /\ args.wind_speed = 10
    /\ args.spot_info # Null
    /\ "characteristics" \in DOMAIN args.spot_info
    /\ \E r \in Recs : WindContribution(r) = 5 /\ r.construction_type = "epoxy"

(***************************************************************************)
(* Properties of run and parse_conditions                                  *)
(***************************************************************************)
\* the first time-step of the payload reports surf min and max
SurfReported(wave) ==
    /\ Truthy(wave)
    /\ "data" \in DOMAIN wave
    /\ "wave" \in DOMAIN wave.data
    /\ Len(wave.data.wave) > 0
    /\ "surf" \in DOMAIN wave.data.wave[1]
    /\ {"min", "max"} \subseteq DOMAIN wave.data.wave[1].surf

\* ... and its swells list, when it has one, has a first entry
WellFormedWave(wave) ==
    /\ SurfReported(wave)
    /\ "swells" \in DOMAIN wave.data.wave[1] => Len(wave.data.wave[1].swells) > 0

\* the wind fetch failed, or returned a payload with a first time-step
WindFailedOrWellFormed(wind) ==
    \/ wind = Null
    \/ /\ "data" \in DOMAIN wind
       /\ "wind" \in DOMAIN wind.data
       /\ Len(wind.data.wind) > 0

\* the period the first swell entry reports, 0 when it reports none
FirstSwellPeriod(wave) ==
    LET step == wave.data.wave[1]
    IN  IF "swells" \notin DOMAIN step THEN 0
        ELSE IF Len(step.swells) = 0 THEN 0
        ELSE IF "period" \notin DOMAIN step.swells[1] THEN 0
        ELSE step.swells[1].period

ErrorStatus == {"unknown_spot", "failed_fetch", "failed_parse"}

\* C5: run scores, exports and formats only after the spot lookup, the wave
\* fetch and parse_conditions have succeeded, in that order; when one of them
\* fails run returns an error message with nothing scored and nothing
\* exported, and after a lookup miss no fetch is issued.
C5_PipelineOrder ==
    /\ Called("recommend_board") =>
         /\ SubSeq(log, 1, 6) = <<"get_spot_info", "fetch_forecast", "fetch_wind",
                                  "fetch_tides", "parse_conditions", "recommend_board">>
         /\ Truthy(spot_info)
         /\ Truthy(wave_data)
         /\ conditions # Null
    /\ (export.written \/ result.status \in {"formatted", "raised"})
         => Called("recommend_board")
    /\ (pc = "done" /\ (~Truthy(spot_info) \/ ~Truthy(wave_data) \/ conditions = Null))
         => /\ result.status \in ErrorStatus
            /\ ~Called("recommend_board")
            /\ recommendations = <<>>
            /\ ~export.written
    /\ (pc = "done" /\ ~Truthy(spot_info))
         => /\ log = <<"get_spot_info">>
            /\ result.status = "unknown_spot"

\* a request that went all the way: scored, exported, formatted
C5_Witness ==
    /\ pc = "done"
    /\ result.status = "formatted"
    /\ export.written
    /\ log = <<"get_spot_info", "fetch_forecast", "fetch_wind", "fetch_tides",
               "parse_conditions", "recommend_board", "save", "format_output">>

\* C6: with a well-formed wave payload, a failed wind fetch, a failed tide
\* fetch or both do not abort the request: parse_conditions succeeds with
\* wind_speed = wind_direction = 0 when the wind fetch failed and tide "N/A"
\* when the tide fetch failed, and run goes on to score the boards.
C6_WindTideFailureTolerated ==
    (/\ pc \in {"recommend", "save", "format", "done"}
     /\ WellFormedWave(wave_data)
     /\ WindFailedOrWellFormed(wind_data)
     /\ wind_data = Null \/ tide_data = Null)
        => /\ conditions # Null
           /\ wind_data = Null
                => conditions.wind_speed = 0 /\ conditions.wind_direction = 0
           /\ tide_data = Null => conditions.tide = "N/A"
           /\ result.status \notin ErrorStatus
           /\ pc # "recommend"
                => /\ Called("recommend_board")
                   /\ Len(recommendations) = Len(boards)
                   /\ args.wind_speed = conditions.wind_speed

\* both side fetches failed and the request still ends with a recommendation
\* computed for no wind
C6_Witness ==
    /\ pc = "done"
    /\ WellFormedWave(wave_data)
    /\ wind_data = Null
    /\ tide_data = Null
    /\ result.status = "formatted"
    /\ args.wind_speed = 0
    /\ conditions.tide = "N/A"

\* C7: given a wave payload whose first time-step reports surf min and max
\* (and no unusable wind payload), parse_conditions succeeds with wave_height
\* the mean of min and max and period the first swell entry's period, or 0
\* when the time-step has no swells key, an empty swells list or a first
\* swell without a period.
C7_ParseFailsOnlyOnSurf ==
    (/\ Called("parse_conditions")
     /\ SurfReported(wave_data)
     /\ WindFailedOrWellFormed(wind_data) \/ ~Truthy(wind_data))
        => /\ conditions # Null
           /\ conditions.wave_height
                = wave_data.data.wave[1].surf.min + wave_data.data.wave[1].surf.max
           /\ conditions.period = FirstSwellPeriod(wave_data)

\* C8: a failed load of the constructions file, missing or unparseable, never
\* halts the process: construction_properties is the built-in default and the
\* board catalog is loaded next; only the spots and boards files can halt it.
C8_ConstructionsNeverFatal ==
    /\ load_status.constructions \in {"missing", "unparseable"}
         => /\ construction_properties = DefaultConstructions
            /\ halt # "raise:constructions"
            /\ pc = "halted" => load_status.boards \in {"missing", "unparseable"}
    /\ pc = "halted"
         => \/ load_status.spots \in {"missing", "unparseable"}
            \/ load_status.boards \in {"missing", "unparseable"}

(***************************************************************************)
(* Properties of the spot registry                                         *)
(***************************************************************************)
\* a name in lowercase with spaces and hyphens turned into underscores
NormalForm(s) ==
    [i \in DOMAIN s |-> IF s[i] = "A" THEN "a"
                        ELSE IF s[i] \in {" ", "-"} THEN "_"
                        ELSE s[i]]

\* C9: get_spot_info returns a record exactly when the normal form of the
\* query equals the normal form of some catalog spot's name, the record is a
\* catalog spot with that normal form, and otherwise the result is None.
C9_ExactNormalizedMatch ==
    Called("get_spot_info") =>
        LET matches == {i \in DOMAIN spots_list :
                          NormalForm(spots_list[i].name) = NormalForm(spot_name)}
        IN  /\ spot_info # Null <=> matches # {}
            /\ spot_info # Null => \E i \in matches : spot_info = spots_list[i]

\* a hit through normalization alone: the registry has two spots and the
\* query differs from the found spot's name even in lowercase
C9_Witness ==
    /\ Called("get_spot_info")
    /\ Len(spots_list) = 2
    /\ spot_info # Null
    /\ Len(spot_name) = 2
    /\ Lower(spot_name) # Lower(spot_info.name)

(***************************************************************************)
(* Properties of the presentation                                          *)
(***************************************************************************)
\* C11: no recommendation scores more than 8.0, the maximum format_output
\* prints next to each score ("Score: x/8.0"), neither in the list
\* recommend_board returns nor among the entries shown.
C11_ScoreAtMostEight ==
    /\ \A r \in Recs : r.score <= 80
    /\ \A i \in DOMAIN result.shown : result.shown[i].score <= 80

====
